---- MODULE Spec2Model ----
(***************************************************************************)
(* A model of the AI daily report job: scripts/daily_ai_report.py (the     *)
(* generation pipeline: retry/backoff, map, reduce, format guard) and      *)
(* scripts/upload_to_drive.py (the cloud mirror).                          *)
(*                                                                         *)
(* Text.  A Python str is modelled as a sequence of segments [c, n]: c is  *)
(* what the segment is and n how many characters it has.  A character is a *)
(* segment with n = 1; a required header of the report and a block of body *)
(* text are segments with n > 1, so that a text of 1200 characters stays a *)
(* short sequence.  len(), strip(), lower(), the `in` substring test, the  *)
(* slice [-k:], + and "\n".join are computed on these sequences.           *)
(***************************************************************************)
EXTENDS Integers, Sequences, FiniteSets, TLC

VARIABLES
    pc,            \* where main() (or the harness of a specification) stands
    model_name,    \* main: model_name
    items,         \* main: items
    idx,           \* map_summaries: the loop's idx (1-based)
    summaries,     \* map_summaries: summaries
    draft,         \* main: report_text as reduce_report returned it
    report_text,   \* main: report_text
    summary_file,  \* reports/{date}_summaries.json: its content, or NoFile
    report_file,   \* reports/{date}_AI_Report.md: its content, or NoFile
    console,       \* the final validation line main printed
    gpc,           \* generate_with_retry: where the current invocation stands
    retries,       \* generate_with_retry: retries
    i,             \* generate_with_retry: the loop's i (0-based)
    last_err,      \* generate_with_retry: last_err
    resp,          \* generate_with_retry: the value returned
    prompt,        \* generate_with_retry: prompt_text
    glog,          \* what the current invocation did: calls, outcomes, sleeps
    invocations,   \* the generate_with_retry invocations of the run, in order
    truth,         \* what the service put in its replies (known to the stub)
    nCalls,        \* service calls of the whole run
    nSleeps,       \* backoff sleeps of the whole run
    writes,        \* the artifacts the run wrote, in order
    fatal,         \* the fatal errors of the run: which stage raised
    listed,        \* what genai.list_models() reported to choose_model
    inflight,      \* requests sent to the service and not yet answered
    arg,           \* the input of the function a harness applies
    out,           \* its result
    mpc,           \* upload_to_drive.main: where it stands
    env,           \* upload_to_drive.main: what the run finds set up
    local,         \* reports/: the content of each *.md and *.json file
    remote,        \* the Drive files: id, name, parent, trashed, content
    targets,       \* upload_to_drive.main: targets
    tpos,          \* upload_to_drive.main: the loop's position in targets
    api,           \* the Drive API calls of this mirror run, in order
    printed,       \* the " - {status}: {name}" lines of this mirror run
    run,           \* which mirror run this is (1-based)
    remote0,       \* the Drive files before the first mirror run
    remote1        \* the Drive files after the first mirror run, once over

vars == <<pc, model_name, items, idx, summaries, draft, report_text,
          summary_file, report_file, console, gpc, retries, i, last_err,
          resp, prompt, glog, invocations, truth, nCalls, nSleeps, writes,
          fatal, listed, inflight, arg, out, mpc, env, local, remote,
          targets, tpos, api, printed, run, remote0, remote1>>

mainVars == <<model_name, items, idx, summaries, draft, report_text,
              summary_file, report_file, console>>
genVars == <<gpc, retries, i, last_err, resp, prompt, glog>>
histVars == <<invocations, truth, nCalls, nSleeps, writes, fatal>>
auxVars == <<listed, inflight>>
pureVars == <<arg, out>>
mirrorVars == <<mpc, env, local, remote, targets, tpos, api, printed, run,
                remote0, remote1>>

(***************************************************************************)
(* Bounds of the model.                                                    *)
(***************************************************************************)
MaxAttempts == 4      \* generate_with_retry alone: retries ranges over 1..MaxAttempts
MaxItems == 3         \* a run collects at most this many items
MaxIndexItems == 2    \* build_raw_index alone: at most this many items

(***************************************************************************)
(* Program constants.                                                      *)
(***************************************************************************)
BackoffUnit == 30     \* wait_time = (i + 1) * 30
DefaultRetries == 3   \* retries: int = 3, and retries=3 at every call site
TruncLen == 1200      \* len(report_text) < 1200
TailLen == 1500       \* existing_text[-1500:]

\* An optional value is a sequence of at most one element.
None == <<>>
Some(x) == <<x>>
NoFile == <<>>

(***************************************************************************)
(* str                                                                     *)
(***************************************************************************)
Seg(c, n) == [c |-> c, n |-> n]
Ch(c) == Seg(c, 1)
Str(cs) == [j \in 1..Len(cs) |-> Ch(cs[j])]

RECURSIVE TextLen(_)
TextLen(t) == IF t = <<>> THEN 0 ELSE Head(t).n + TextLen(Tail(t))

\* needle in t
Contains(needle, t) ==
    \E j \in 0..(Len(t) - Len(needle)) : SubSeq(t, j + 1, j + Len(needle)) = needle

IsSpace(s) == s.c \in {" ", "\n", "\t"}

RECURSIVE LStrip(_)
LStrip(t) == IF t # <<>> /\ IsSpace(Head(t)) THEN LStrip(Tail(t)) ELSE t

RECURSIVE RStrip(_)
RStrip(t) ==
    IF t # <<>> /\ IsSpace(t[Len(t)]) THEN RStrip(SubSeq(t, 1, Len(t) - 1)) ELSE t

Strip(t) == RStrip(LStrip(t))

UpperAlpha == <<"A", "B", "C", "D", "E", "F", "G", "H", "I", "J", "K", "L", "M",
                "N", "O", "P", "Q", "R", "S", "T", "U", "V", "W", "X", "Y", "Z">>
LowerAlpha == <<"a", "b", "c", "d", "e", "f", "g", "h", "i", "j", "k", "l", "m",
                "n", "o", "p", "q", "r", "s", "t", "u", "v", "w", "x", "y", "z">>

LowerChar(c) ==
    IF \E k \in DOMAIN UpperAlpha : UpperAlpha[k] = c
    THEN LowerAlpha[CHOOSE k \in DOMAIN UpperAlpha : UpperAlpha[k] = c]
    ELSE c

Lower(t) == [j \in DOMAIN t |-> Seg(LowerChar(t[j].c), t[j].n)]

\* t[-k:] for k > 0: a segment the slice cuts through leaves a fragment
RECURSIVE LastChars(_, _)
LastChars(t, k) ==
    IF t = <<>> \/ k <= 0 THEN <<>>
    ELSE LET last == t[Len(t)]
             front == SubSeq(t, 1, Len(t) - 1)
         IN  IF last.n <= k
             THEN Append(LastChars(front, k - last.n), last)
             ELSE <<Seg("(fragment)", k)>>

RECURSIVE Join(_, _)
Join(sep, lines) ==
    IF lines = <<>> THEN <<>>
    ELSE IF Len(lines) = 1 THEN lines[1]
    ELSE lines[1] \o sep \o Join(sep, Tail(lines))

NL == Str(<<"\n">>)

(***************************************************************************)
(* The generative-text service, as the run sees it: each call either       *)
(* returns a text or raises an exception with a description.               *)
(***************************************************************************)
Err429 == Str(<<"4", "2", "9", " ", "T", "o", "o", " ", "M", "a", "n", "y">>)
ErrQuotaUpper == Str(<<"Q", "U", "O", "T", "A">>)
ErrQuotaMixed == Str(<<"R", "e", "s", "o", "u", "r", "c", "e", " ", "Q", "u", "o", "t", "a">>)
Err500 == Str(<<"5", "0", "0", " ", "I", "n", "t", "e", "r", "n", "a", "l">>)
ErrQuot == Str(<<"4", "2", " ", "9", " ", "q", "u", "o", "t">>)

ErrMsgs == {Err429, ErrQuotaUpper, ErrQuotaMixed, Err500, ErrQuot}

\* msg = str(e).lower(); "429" in msg or "quota" in msg
IsRateLimit(e) ==
    LET msg == Lower(e)
    IN  Contains(Str(<<"4", "2", "9">>), msg) \/ Contains(Str(<<"q", "u", "o", "t", "a">>), msg)

\* ("429" in msg or "quota" in msg) and i < retries - 1
ShouldRetryAnyError(e, k, n) == k < n - 1
ShouldRetryLastToo(e, k, n) == IsRateLimit(e) /\ k < n
ShouldRetry(e, k, n) == IsRateLimit(e) /\ k < n - 1

\* wait_time = (i + 1) * 30
WaitTimeFlat(k) == BackoffUnit
WaitTime(k) == (k + 1) * BackoffUnit

(***************************************************************************)
(* The format guard's functions.  The headers keep the lengths of the      *)
(* source's strings; their Korean words are written in English here.       *)
(***************************************************************************)
H_Title == <<Seg("# [AI Daily]", 12)>>
H_Top == <<Seg("## (today's) Top (issues)", 13)>>
H_Actions == <<Seg("## (today's) (actions) 3", 16)>>
H_RawIndex == <<Seg("## (source list) (Raw Index)", 20)>>
H_News == <<Seg("### (news)", 6)>>
H_Papers == <<Seg("### (papers)", 6)>>

Required == <<H_Title, H_Top, H_Actions, H_RawIndex, H_News, H_Papers>>

\* return [k for k in required if k not in report_text]
validate_report_format(report) ==
    LET absent(k) == ~Contains(k, report) IN SelectSeq(Required, absent)

\* len(report_text) < 1200, or the raw index header is not in report_text
looks_truncated_le(report) ==
    \/ TextLen(report) <= TruncLen
    \/ ~Contains(H_RawIndex, report)
looks_truncated(report) ==
    \/ TextLen(report) < TruncLen
    \/ ~Contains(H_RawIndex, report)

\* if missing or looks_truncated(report_text)
NeedsContinueBoth(report) ==
    validate_report_format(report) # <<>> /\ looks_truncated(report)
NeedsContinue(report) ==
    validate_report_format(report) # <<>> \/ looks_truncated(report)

(***************************************************************************)
(* generate_with_retry(model_name, prompt_text, retries)                   *)
(*                                                                         *)
(* gpc: "idle" (no invocation), "call" (about to call the service), "wait" *)
(* (the request is with the service), "sleep" (in time.sleep), "returned", *)
(* "raised".                                                               *)
(***************************************************************************)
Ev(e, msg, t) == [e |-> e, msg |-> msg, t |-> t]
EvCall == Ev("call", <<>>, 0)
EvOk(r) == Ev("ok", r, 0)
EvErr(m) == Ev("err", m, 0)
EvSleep(t) == Ev("sleep", <<>>, t)

Prompt(kind, body) == [kind |-> kind, body |-> body]
NoPrompt == Prompt("none", <<>>)

\* What the service may answer to a prompt of each kind: a reply is the
\* text and what the stub knows it put in it (hs: the required headers it
\* holds, len: its length once stripped).
Reply(text, hs, len) == [text |-> text, hs |-> hs, len |-> len]
DirectReplies ==
    { Reply(Str(<<"o", "k">>), {}, 2), Reply(Str(<<" ", "o", "k", "\n">>), {}, 2) }

\* A summary: "- title: ..." with white space around it.
MapReplies ==
    { Reply(Str(<<"\n", "-", " ", "s", "\n">>), {}, 3) }

\* A report of len characters holding the headers hs, each on its own line,
\* then body text; the service sends it with white space around it.
RECURSIVE SumLen(_)
SumLen(ts) == IF ts = <<>> THEN 0 ELSE TextLen(Head(ts)) + SumLen(Tail(ts))

InSet(hs) == LET in(h) == h \in hs IN SelectSeq(Required, in)

MkReport(hs, len) ==
    LET heads == InSet(hs)
        used == SumLen(heads) + Len(heads)
    IN  Join(NL, Append(heads, <<Seg("body", len - used)>>))

Padded(t) == Str(<<" ", "\n">>) \o t \o Str(<<"\n">>)

ReportReply(hs, len) == Reply(Padded(MkReport(hs, len)), hs, len)

AllHeaders == {Required[k] : k \in DOMAIN Required}

\* ... or sends white space only
DraftReplies ==
    { ReportReply(hs, len) :
        hs \in {AllHeaders, AllHeaders \ {H_RawIndex}, AllHeaders \ {H_News}},
        len \in {TruncLen - 1, TruncLen, TailLen + 100} }
    \cup { Reply(Str(<<" ", "\n">>), {}, 0) }

ContinuationReplies ==
    { ReportReply(hs, len) :
        hs \in {{}, {H_RawIndex}, {H_News, H_Papers}},
        len \in {100, TruncLen} }

Replies(kind) ==
    CASE kind = "map" -> MapReplies
      [] kind = "reduce" -> DraftReplies
      [] kind = "continue" -> ContinuationReplies
      [] OTHER -> DirectReplies

\* The exceptions the service raises: every description when generate_with_retry
\* is exercised alone, one of each class in a run of the pipeline.
Errors(kind) == IF kind = "direct" THEN ErrMsgs ELSE {Err429, Err500}

\* the entry of generate_with_retry: model = ..., last_err = None
GenStart(p, n) ==
    /\ gpc' = "call"
    /\ retries' = n
    /\ i' = 0
    /\ last_err' = None
    /\ resp' = None
    /\ prompt' = p
    /\ glog' = <<>>

\* model.generate_content(prompt_text): the request leaves
GenSend ==
    /\ gpc = "call"
    /\ gpc' = "wait"
    /\ glog' = Append(glog, EvCall)
    /\ nCalls' = nCalls + 1
    /\ inflight' = inflight + 1
    /\ UNCHANGED <<pc, mainVars, retries, i, last_err, resp, prompt,
                   invocations, truth, nSleeps, writes, fatal, listed,
                   pureVars, mirrorVars>>

\* return model.generate_content(prompt_text)
GenReturn ==
    /\ gpc = "wait"
    /\ \E r \in Replies(prompt.kind) :
          /\ resp' = Some(r.text)
          /\ glog' = Append(glog, EvOk(r.text))
          /\ truth' = Append(truth, [kind |-> prompt.kind, hs |-> r.hs, len |-> r.len])
    /\ gpc' = "returned"
    /\ inflight' = inflight - 1
    /\ UNCHANGED <<pc, mainVars, retries, i, last_err, prompt,
                   invocations, nCalls, nSleeps, writes, fatal, listed,
                   pureVars, mirrorVars>>

\* except Exception as e: retry after a sleep, or raise
GenFail ==
    /\ gpc = "wait"
    /\ \E e \in Errors(prompt.kind) :
          /\ last_err' = Some(e)
          /\ glog' = Append(glog, EvErr(e))
          /\ gpc' = IF ShouldRetry(e, i, retries) THEN "sleep" ELSE "raised"
          /\ fatal' = IF ShouldRetry(e, i, retries) THEN fatal
                       ELSE Append(fatal, prompt.kind)
    /\ inflight' = inflight - 1
    /\ UNCHANGED <<pc, mainVars, retries, i, resp, prompt,
                   invocations, truth, nCalls, nSleeps, writes, listed,
                   pureVars, mirrorVars>>

\* time.sleep(wait_time), then the next iteration of the loop; when the
\* loop is over, raise last_err
GenSleep ==
    /\ gpc = "sleep"
    /\ glog' = Append(glog, EvSleep(WaitTime(i)))
    /\ nSleeps' = nSleeps + 1
    /\ i' = i + 1
    /\ gpc' = IF i + 1 < retries THEN "call" ELSE "raised"
    /\ fatal' = IF i + 1 < retries THEN fatal ELSE Append(fatal, prompt.kind)
    /\ UNCHANGED <<pc, mainVars, retries, last_err, resp, prompt,
                   invocations, truth, nCalls, writes,
                   pureVars, auxVars, mirrorVars>>

MainIdle ==
    /\ model_name = None
    /\ items = <<>>
    /\ idx = 0
    /\ summaries = <<>>
    /\ draft = None
    /\ report_text = None
    /\ summary_file = NoFile
    /\ report_file = NoFile
    /\ console = "none"

GenIdle ==
    /\ gpc = "idle"
    /\ retries = 0
    /\ i = 0
    /\ last_err = None
    /\ resp = None
    /\ prompt = NoPrompt
    /\ glog = <<>>

HistIdle ==
    /\ invocations = <<>>
    /\ truth = <<>>
    /\ nCalls = 0
    /\ nSleeps = 0
    /\ writes = <<>>
    /\ fatal = <<>>

AuxIdle ==
    /\ listed = None
    /\ inflight = 0

PureIdle ==
    /\ arg = <<>>
    /\ out = <<>>

MirrorIdle ==
    /\ mpc = "off"
    /\ env = <<>>
    /\ local = <<>>
    /\ remote = {}
    /\ targets = <<>>
    /\ tpos = 0
    /\ api = <<>>
    /\ printed = <<>>
    /\ run = 0
    /\ remote0 = {}
    /\ remote1 = None

(***************************************************************************)
(* choose_model()                                                          *)
(***************************************************************************)
Candidates == <<"models/gemini-2.5-flash", "models/gemini-2.0-flash",
                "models/gemini-1.5-flash", "models/gemini-pro">>

Listed(name, methods) == [name |-> name, methods |-> methods]

\* [m.name for m in genai.list_models() if "generateContent" in m.supported_generation_methods]
CapableModels(listing) ==
    LET capable(m) == "generateContent" \in m.methods
        kept == SelectSeq(listing, capable)
    IN  [k \in 1..Len(kept) |-> kept[k].name]

Range(f) == {f[k] : k \in DOMAIN f}

\* next((c for c in candidates if c in all_models), all_models[0]); the
\* default all_models[0] is evaluated before next() is called, so an empty
\* all_models raises IndexError
choose_model_fails(listing) == CapableModels(listing) = <<>>
choose_model_in_listed_order(listing) ==
    LET all_models == CapableModels(listing)
        found == {k \in DOMAIN all_models : all_models[k] \in Range(Candidates)}
    IN  IF found # {}
        THEN all_models[CHOOSE k \in found : \A m \in found : k <= m]
        ELSE all_models[1]
choose_model(listing) ==
    LET all_models == CapableModels(listing)
        found == {k \in DOMAIN Candidates : Candidates[k] \in Range(all_models)}
    IN  IF found # {}
        THEN Candidates[CHOOSE k \in found : \A m \in found : k <= m]
        ELSE all_models[1]

\* What list_models() may report.
Listings ==
    { <<>>,
      <<Listed("models/embedding-001", {"embedContent"})>>,
      <<Listed("models/gemini-pro", {"generateContent"}),
        Listed("models/gemini-2.5-flash", {"embedContent"}),
        Listed("models/gemini-2.0-flash", {"generateContent", "countTokens"})>>,
      <<Listed("models/gemini-pro", {"generateContent"}),
        Listed("models/gemini-1.5-flash", {"generateContent"}),
        Listed("models/gemini-2.0-flash", {"generateContent"}),
        Listed("models/gemini-2.5-flash", {"generateContent"})>>,
      <<Listed("models/gemma-3", {"generateContent"}),
        Listed("models/aqa", {"generateAnswer"})>> }

(***************************************************************************)
(* collect_items(): news first, then papers, every field stripped.         *)
(***************************************************************************)
Item(type, title, body, link) ==
    [type |-> type, title |-> title, body |-> body, link |-> link]

NewsPool ==
    { Item("news", Str(<<"n", "1">>), Str(<<"b">>), Str(<<"u", "1">>)),
      Item("news", <<>>, Str(<<"b">>), Str(<<"u", "2">>)) }
PaperPool ==
    { Item("paper", Str(<<"p", "1">>), Str(<<"b">>), Str(<<"v", "1">>)) }

SeqsUpTo(S, n) == UNION {[1..k -> S] : k \in 0..n}

Collected ==
    { ns \o ps : ns \in SeqsUpTo(NewsPool, MaxItems), ps \in SeqsUpTo(PaperPool, MaxItems) }

ItemSeqs == {its \in Collected : Len(its) <= MaxItems}

(***************************************************************************)
(* build_raw_index(items)                                                  *)
(***************************************************************************)
\* (it.get(key) or "").strip()
FieldRaw(s) == s
Field(s) == Strip(s)

\* f"- {t} — {link}"
IndexLine(t, link) ==
    Str(<<"-", " ">>) \o t \o Str(<<" ", "EM DASH", " ">>) \o link

\* the loop: news_lines and paper_lines after the items seen so far
RECURSIVE IndexLines(_)
IndexLines(its) ==
    IF its = <<>> THEN [news |-> <<>>, paper |-> <<>>]
    ELSE LET before == IndexLines(SubSeq(its, 1, Len(its) - 1))
             it == its[Len(its)]
             t == Field(it.title)
             link == Field(it.link)
         IN  IF t = <<>> \/ link = <<>> THEN before
             ELSE IF it.type = "news"
                  THEN [before EXCEPT !.news = Append(@, IndexLine(t, link))]
             ELSE IF it.type = "paper"
                  THEN [before EXCEPT !.paper = Append(@, IndexLine(t, link))]
             ELSE before

\* return "\n".join(news_lines), "\n".join(paper_lines)
build_raw_index(its) ==
    LET l == IndexLines(its)
    IN  [news_lines |-> l.news, paper_lines |-> l.paper,
         news_index_text |-> Join(NL, l.news),
         paper_index_text |-> Join(NL, l.paper)]

(***************************************************************************)
(* The prompts.  A prompt is kept as the values its f-string embeds.       *)
(***************************************************************************)
\* map_summaries: item_text inside summary_prompt
summary_prompt(it) == Prompt("map", it)

CountType(its, ty) == Cardinality({k \in DOMAIN its : its[k].type = ty})

NoNewsLine == Str(<<"-", " ", "(", "n", "o", " ", "n", "e", "w", "s", ")">>)
NoPaperLine == Str(<<"-", " ", "(", "n", "o", " ", "p", "a", "p", "e", "r", "s", ")">>)

\* build_report_prompt(target_date, generated_time_kst, items, all_summaries_text)
build_report_prompt(its, sums) ==
    LET index == build_raw_index(its)
        texts == [k \in DOMAIN sums |-> sums[k].summary_text]
    IN  Prompt("reduce",
               [news_n |-> CountType(its, "news"),
                paper_n |-> CountType(its, "paper"),
                all_summaries_text |-> Join(NL \o NL, texts),
                news_index_text |-> IF index.news_index_text # <<>>
                                    THEN index.news_index_text ELSE NoNewsLine,
                paper_index_text |-> IF index.paper_index_text # <<>>
                                     THEN index.paper_index_text ELSE NoPaperLine])

\* continue_report: tail = existing_text[-1500:]
continue_prompt_whole_text(existing_text) == Prompt("continue", existing_text)
continue_prompt(existing_text) == Prompt("continue", LastChars(existing_text, TailLen))

(***************************************************************************)
(* main()                                                                  *)
(*                                                                         *)
(* pc: "start", "collect", "map" (the head of map_summaries' loop),        *)
(* "map_wait" (in generate_with_retry for items[idx]), "save", "reduce",   *)
(* "reduce_wait", "guard", "continue_wait", "persist", "done", "aborted"   *)
(* (an exception left main).                                               *)
(***************************************************************************)
Invocation(kind, k, model) == [kind |-> kind, idx |-> k, model |-> model]

\* api_key is not set: raise RuntimeError
NoApiKey ==
    /\ pc = "start"
    /\ pc' = "aborted"
    /\ UNCHANGED <<mainVars, genVars, histVars,
                   pureVars, auxVars, mirrorVars>>

\* model_name = choose_model()
ChooseModel ==
    /\ pc = "start"
    /\ \E listing \in Listings :
          /\ ~choose_model_fails(listing)
          /\ model_name' = Some(choose_model(listing))
          /\ listed' = Some(listing)
    /\ pc' = "collect"
    /\ UNCHANGED <<items, idx, summaries, draft, report_text, summary_file,
                   report_file, console, genVars, histVars, inflight,
                   pureVars, mirrorVars>>

\* choose_model() raises: no model supports generateContent
ChooseModelFails ==
    /\ pc = "start"
    /\ \E listing \in Listings :
          /\ choose_model_fails(listing)
          /\ listed' = Some(listing)
    /\ pc' = "aborted"
    /\ fatal' = Append(fatal, "select")
    /\ UNCHANGED <<mainVars, genVars, invocations, truth, nCalls, nSleeps,
                   writes, inflight, pureVars, mirrorVars>>

\* items = collect_items(target_date, news_n=5, paper_n=5), and the entry
\* of map_summaries: summaries = []
Collect ==
    /\ pc = "collect"
    /\ \E its \in ItemSeqs : items' = its
    /\ summaries' = <<>>
    /\ idx' = 1
    /\ pc' = "map"
    /\ UNCHANGED <<model_name, draft, report_text, summary_file, report_file,
                   console, genVars, histVars,
                   pureVars, auxVars, mirrorVars>>

\* for idx, it in enumerate(items, start=1): resp = generate_with_retry(...)
MapCall ==
    /\ pc = "map"
    /\ idx <= Len(items)
    /\ GenStart(summary_prompt(items[idx]), DefaultRetries)
    /\ invocations' = Append(invocations, Invocation("map", idx, model_name))
    /\ pc' = "map_wait"
    /\ UNCHANGED <<mainVars, truth, nCalls, nSleeps, writes, fatal,
                   pureVars, auxVars, mirrorVars>>

\* summaries.append({...})
SummaryEntryShifted(k, it, text) ==
    [idx |-> k - 1, type |-> it.type, title |-> it.title, link |-> it.link,
     summary_text |-> Strip(text)]
SummaryEntry(k, it, text) ==
    [idx |-> k, type |-> it.type, title |-> it.title, link |-> it.link,
     summary_text |-> Strip(text)]

MapAppendStaysOnItem ==
    /\ pc = "map_wait"
    /\ gpc = "returned"
    /\ summaries' = Append(summaries, SummaryEntry(idx, items[idx], resp[1]))
    /\ gpc' = "idle"
    /\ pc' = "map"
    /\ UNCHANGED <<model_name, items, idx, draft, report_text, summary_file,
                   report_file, console, retries, i, last_err, resp, prompt,
                   glog, histVars,
                   pureVars, auxVars, mirrorVars>>
MapAppend ==
    /\ pc = "map_wait"
    /\ gpc = "returned"
    /\ summaries' = Append(summaries, SummaryEntry(idx, items[idx], resp[1]))
    /\ idx' = idx + 1
    /\ gpc' = "idle"
    /\ pc' = "map"
    /\ UNCHANGED <<model_name, items, draft, report_text, summary_file,
                   report_file, console, retries, i, last_err, resp, prompt,
                   glog, histVars,
                   pureVars, auxVars, mirrorVars>>

\* return summaries
MapReturnBeforeLast ==
    /\ pc = "map"
    /\ idx >= Len(items)
    /\ pc' = "save"
    /\ UNCHANGED <<mainVars, genVars, histVars,
                   pureVars, auxVars, mirrorVars>>
MapReturn ==
    /\ pc = "map"
    /\ idx > Len(items)
    /\ pc' = "save"
    /\ UNCHANGED <<mainVars, genVars, histVars,
                   pureVars, auxVars, mirrorVars>>

\* summary_path.write_text(json.dumps(summaries, ...)): the file holds the
\* entries of summaries
SaveSummariesDeferred ==
    /\ pc = "save"
    /\ pc' = "reduce"
    /\ UNCHANGED <<mainVars, genVars, histVars,
                   pureVars, auxVars, mirrorVars>>
SaveSummaries ==
    /\ pc = "save"
    /\ summary_file' = Some(summaries)
    /\ writes' = Append(writes, "summaries")
    /\ pc' = "reduce"
    /\ UNCHANGED <<model_name, items, idx, summaries, draft, report_text,
                   report_file, console, genVars, invocations, truth, nCalls,
                   nSleeps, fatal,
                   pureVars, auxVars, mirrorVars>>

\* report_text = reduce_report(model_name, report_prompt)
ReduceCall ==
    /\ pc = "reduce"
    /\ GenStart(build_report_prompt(items, summaries), DefaultRetries)
    /\ invocations' = Append(invocations, Invocation("reduce", 0, model_name))
    /\ pc' = "reduce_wait"
    /\ UNCHANGED <<mainVars, truth, nCalls, nSleeps, writes, fatal,
                   pureVars, auxVars, mirrorVars>>

\* return resp.text.strip()
ReduceReturn ==
    /\ pc = "reduce_wait"
    /\ gpc = "returned"
    /\ report_text' = Some(Strip(resp[1]))
    /\ draft' = Some(Strip(resp[1]))
    /\ gpc' = "idle"
    /\ pc' = "guard"
    /\ UNCHANGED <<model_name, items, idx, summaries, summary_file,
                   report_file, console, retries, i, last_err, resp, prompt,
                   glog, histVars,
                   pureVars, auxVars, mirrorVars>>

\* missing = validate_report_format(report_text); neither missing nor
\* looks_truncated: no continuation
GuardAccept ==
    /\ pc = "guard"
    /\ ~NeedsContinue(report_text[1])
    /\ pc' = "persist"
    /\ UNCHANGED <<mainVars, genVars, histVars,
                   pureVars, auxVars, mirrorVars>>

\* report_text = continue_report(model_name, report_text)
GuardContinueSavingDraft ==
    /\ pc = "guard"
    /\ NeedsContinue(report_text[1])
    /\ GenStart(continue_prompt(report_text[1]), DefaultRetries)
    /\ invocations' = Append(invocations, Invocation("continue", 0, model_name))
    /\ report_file' = Some(report_text[1])
    /\ writes' = Append(writes, "report")
    /\ pc' = "continue_wait"
    /\ UNCHANGED <<model_name, items, idx, summaries, draft, report_text,
                   summary_file, console, truth, nCalls, nSleeps, fatal,
                   pureVars, auxVars, mirrorVars>>
GuardContinue ==
    /\ pc = "guard"
    /\ NeedsContinue(report_text[1])
    /\ GenStart(continue_prompt(report_text[1]), DefaultRetries)
    /\ invocations' = Append(invocations, Invocation("continue", 0, model_name))
    /\ pc' = "continue_wait"
    /\ UNCHANGED <<mainVars, truth, nCalls, nSleeps, writes, fatal,
                   pureVars, auxVars, mirrorVars>>

\* where main goes on after continue_report returned
AfterContinueRecheck == "guard"
AfterContinue == "persist"

\* return existing_text + "\n" + resp2.text.strip()
ContinueReturn ==
    /\ pc = "continue_wait"
    /\ gpc = "returned"
    /\ report_text' = Some(report_text[1] \o NL \o Strip(resp[1]))
    /\ gpc' = "idle"
    /\ pc' = AfterContinue
    /\ UNCHANGED <<model_name, items, idx, summaries, draft, summary_file,
                   report_file, console, retries, i, last_err, resp, prompt,
                   glog, histVars,
                   pureVars, auxVars, mirrorVars>>

\* missing2 = validate_report_format(report_text), the line printed for it,
\* and report_path.write_text(report_text)
PersistOnlyIfValid ==
    /\ pc = "persist"
    /\ console' = IF validate_report_format(report_text[1]) # <<>>
                   THEN "final defect" ELSE "passed"
    /\ report_file' = IF validate_report_format(report_text[1]) # <<>>
                       THEN report_file ELSE Some(report_text[1])
    /\ writes' = IF validate_report_format(report_text[1]) # <<>>
                  THEN writes ELSE Append(writes, "report")
    /\ pc' = IF validate_report_format(report_text[1]) # <<>>
              THEN "aborted" ELSE "done"
    /\ UNCHANGED <<model_name, items, idx, summaries, draft, report_text,
                   summary_file, genVars, invocations, truth, nCalls, nSleeps,
                   fatal, pureVars, auxVars, mirrorVars>>
Persist ==
    /\ pc = "persist"
    /\ console' = IF validate_report_format(report_text[1]) # <<>>
                   THEN "final defect" ELSE "passed"
    /\ report_file' = Some(report_text[1])
    /\ writes' = Append(writes, "report")
    /\ pc' = "done"
    /\ UNCHANGED <<model_name, items, idx, summaries, draft, report_text,
                   summary_file, genVars, invocations, truth, nCalls, nSleeps,
                   fatal,
                   pureVars, auxVars, mirrorVars>>

\* Where main stands after generate_with_retry raised inside the stage
\* `kind`: neither main nor the stage's function has a try, so the exception
\* leaves main.
AfterRaiseKeepPartial(kind) ==
    IF kind = "map" THEN "save" ELSE "aborted"
AfterRaiseKeepDraft(kind) ==
    IF kind = "continue" THEN "persist" ELSE "aborted"
AfterRaise(kind) == "aborted"

Propagate ==
    /\ pc \in {"map_wait", "reduce_wait", "continue_wait"}
    /\ gpc = "raised"
    /\ gpc' = "idle"
    /\ pc' = AfterRaise(prompt.kind)
    /\ UNCHANGED <<mainVars, retries, i, last_err, resp, prompt, glog,
                   histVars,
                   pureVars, auxVars, mirrorVars>>

Init ==
    /\ pc = "start"
    /\ MainIdle
    /\ GenIdle
    /\ HistIdle
    /\ AuxIdle
    /\ MirrorIdle
    /\ PureIdle

Next ==
    \/ NoApiKey
    \/ ChooseModel
    \/ ChooseModelFails
    \/ Collect
    \/ MapCall
    \/ MapAppend
    \/ MapReturn
    \/ SaveSummaries
    \/ ReduceCall
    \/ ReduceReturn
    \/ GuardAccept
    \/ GuardContinue
    \/ ContinueReturn
    \/ Persist
    \/ Propagate
    \/ GenSend
    \/ GenReturn
    \/ GenFail
    \/ GenSleep

Spec == Init /\ [][Next]_vars

(***************************************************************************)
(* Properties of a run of the pipeline.                                    *)
(***************************************************************************)
IsMap(v) == v.kind = "map"
IsReduce(v) == v.kind = "reduce"
IsContinue(v) == v.kind = "continue"

MapInvocations == SelectSeq(invocations, IsMap)
ReduceCount == Len(SelectSeq(invocations, IsReduce))
ContinueCount == Len(SelectSeq(invocations, IsContinue))

\* What the service put in the draft and in the continuation it returned.
DraftTruth == SelectSeq(truth, IsReduce)[1]
ContinuationTruth == SelectSeq(truth, IsContinue)[1]

\* reduce_report has returned and main has taken the guard's decision
GuardActed == draft # None /\ pc # "guard"

\* C4: the guard issues at most one continuation (one invocation of
\* generate_with_retry by continue_report) in a run, and exactly one once it
\* has acted on a draft that lacks a required header, also when the text
\* after the continuation still lacks it.
C4_SingleContinuation ==
    /\ ContinueCount <= 1
    /\ (GuardActed /\ DraftTruth.hs # AllHeaders) => ContinueCount = 1

C4_Witness ==
    /\ pc = "done"
    /\ H_News \notin DraftTruth.hs
    /\ ContinueCount = 1
    /\ H_News \notin ContinuationTruth.hs
    /\ ~Contains(H_News, report_file[1])
    /\ console = "final defect"

\* C5: a continuation is performed if and only if the draft lacks a required
\* header or looks truncated (under 1200 characters, or no raw index
\* header); a draft of at least 1200 characters with all six headers is
\* persisted unchanged, with no continuation.
C5_DecisionRule ==
    GuardActed =>
      /\ ContinueCount = 1
           <=> \/ DraftTruth.hs # AllHeaders
               \/ DraftTruth.len < 1200
               \/ H_RawIndex \notin DraftTruth.hs
      /\ (pc = "done" /\ DraftTruth.hs = AllHeaders /\ DraftTruth.len >= 1200)
           => /\ ContinueCount = 0
              /\ report_file = draft
              /\ report_file = Some(MkReport(AllHeaders, DraftTruth.len))

C5_Witness ==
    /\ pc = "done"
    /\ DraftTruth.hs = AllHeaders
    /\ DraftTruth.len = 1200
    /\ ContinueCount = 0
    /\ report_file = Some(MkReport(AllHeaders, 1200))

\* map_summaries has returned
MapReturned ==
    \/ pc \in {"save", "reduce", "reduce_wait", "guard", "continue_wait",
                "persist", "done"}
    \/ pc = "aborted" /\ summary_file # NoFile

\* C8: when map_summaries returns for N items, summaries has N entries, the
\* i-th has idx i and the type, title and link of the i-th item, and there
\* was exactly one generate_with_retry invocation per item.
C8_MapShape ==
    MapReturned =>
      /\ Len(summaries) = Len(items)
      /\ \A k \in 1..Len(items) :
            /\ summaries[k].idx = k
            /\ summaries[k].type = items[k].type
            /\ summaries[k].title = items[k].title
            /\ summaries[k].link = items[k].link
      /\ Len(MapInvocations) = Len(items)
      /\ \A k \in 1..Len(items) : MapInvocations[k].idx = k

C8_Witness ==
    /\ pc = "save"
    /\ Len(items) = 3
    /\ items[1].type = "news"
    /\ items[3].type = "paper"
    /\ summaries[3].idx = 3
    /\ summaries[3].title = Str(<<"p", "1">>)
    /\ Len(MapInvocations) = 3

\* C9: a fatal error of generate_with_retry on item i ends the run there: no
\* request for a later item, no report composer call, neither artifact
\* written; and the summaries artifact is only ever written with an entry
\* for every item.
C9_CompleteOrNothing ==
    /\ summary_file # NoFile =>
          /\ Len(summary_file[1]) = Len(items)
          /\ \A k \in 1..Len(items) : summary_file[1][k].idx = k
    /\ (fatal # <<>> /\ fatal[1] = "map") =>
          /\ pc \in {"map_wait", "aborted"}
          /\ Len(invocations) = idx
          /\ \A k \in 1..idx : invocations[k].kind = "map" /\ invocations[k].idx = k
          /\ ReduceCount = 0
          /\ Len(summaries) = idx - 1
          /\ summary_file = NoFile
          /\ report_file = NoFile
          /\ writes = <<>>

C9_Witness ==
    /\ pc = "aborted"
    /\ fatal = <<"map">>
    /\ Len(items) = 3
    /\ idx = 2
    /\ Len(summaries) = 1
    /\ Len(invocations) = 2
    /\ summary_file = NoFile
    /\ report_file = NoFile

\* C10: once model selection or a generate_with_retry invocation of any
\* stage has failed, nothing recovers: the run makes no further invocation
\* and never writes the report file, also when a draft already existed and
\* the continuation failed.
C10_FatalAbortsBeforeReport ==
    fatal # <<>> =>
      /\ Len(fatal) = 1
      /\ pc \in {"map_wait", "reduce_wait", "continue_wait", "aborted"}
      /\ gpc \in {"raised", "idle"}
      /\ report_file = NoFile
      /\ \A k \in DOMAIN writes : writes[k] # "report"

C10_Witness ==
    /\ pc = "aborted"
    /\ fatal = <<"continue">>
    /\ DraftTruth.hs = AllHeaders
    /\ draft = Some(MkReport(AllHeaders, 1199))
    /\ summary_file # NoFile
    /\ report_file = NoFile

IsReportWrite(w) == w = "report"
ReportWrites == Len(SelectSeq(writes, IsReportWrite))
ContinuationReturned == Len(SelectSeq(truth, IsContinue)) = 1

\* C11: the report file is written at most once in a run; a run that has
\* ended without an exception has written it exactly once; and it is
\* written only after the guard has decided and its continuation, if any,
\* has returned.
C11_ReportWrittenOnce ==
    /\ ReportWrites <= 1
    /\ pc = "done" => ReportWrites = 1
    /\ (pc # "aborted" /\ ~ENABLED Next) => ReportWrites = 1
    /\ ReportWrites = 1 =>
          /\ pc = "done"
          /\ GuardActed
          /\ gpc = "idle"
          /\ inflight = 0
          /\ ContinueCount <= 1
          /\ ContinueCount = 1 => ContinuationReturned
          /\ report_file = report_text

C11_Witness ==
    /\ pc = "done"
    /\ ContinueCount = 1
    /\ ContinuationReturned
    /\ writes = <<"summaries", "report">>
    /\ ReportWrites = 1

\* The required headers of the text main validates last: those of the draft
\* and of the continuation appended to it.
FinalHeaders ==
    DraftTruth.hs \cup (IF ContinuationReturned THEN ContinuationTruth.hs ELSE {})

\* C12: the validation after the (possible) continuation only reports: once
\* continue_report has returned main goes on to it, and from it main always
\* writes the report, printing 'passed' or, when a required header is still
\* absent, the final defect; it never aborts or retries on that result.
C12_BestEffort ==
    /\ [](pc = "done" =>
            /\ report_file = report_text
            /\ console \in {"passed", "final defect"}
            /\ console = "final defect" <=> FinalHeaders # AllHeaders)
    /\ [][(pc = "continue_wait" /\ gpc = "returned") => pc' = "persist"]_vars
    /\ [][pc = "persist" =>
            /\ pc' = "done"
            /\ report_file' = report_text
            /\ invocations' = invocations]_vars

C12_Witness ==
    /\ pc = "done"
    /\ ContinueCount = 1
    /\ H_RawIndex \notin FinalHeaders
    /\ console = "final defect"
    /\ report_file = report_text
    /\ ~Contains(H_RawIndex, report_file[1])

\* The invocations of the run that have neither returned nor raised.
IsGenFatal(k) == k # "select"
Unresolved == Len(invocations) - Len(truth) - Len(SelectSeq(fatal, IsGenFatal))

\* C14: at most one request is with the service at any time, and at most one
\* invocation is unresolved; an invocation starts only when the one before
\* it has returned: item k's after item k-1's summary exists, the report
\* composer's after all N summaries exist, the continuation's after the
\* report composer's has returned.
C14_Sequential ==
    /\ [](/\ inflight \in {0, 1}
          /\ inflight = 1 <=> gpc = "wait"
          /\ Unresolved \in {0, 1}
          /\ Unresolved = 1 <=> gpc \in {"call", "wait", "sleep"}
          /\ \A k \in 1..Len(MapInvocations) :
                invocations[k].kind = "map" /\ invocations[k].idx = k
          /\ Len(MapInvocations) <= Len(summaries) + 1
          /\ ReduceCount >= 1 =>
                /\ Len(summaries) = Len(items)
                /\ Len(MapInvocations) = Len(items)
                /\ invocations[Len(items) + 1].kind = "reduce"
          /\ ContinueCount >= 1 =>
                /\ ReduceCount = 1
                /\ draft # None
                /\ Len(SelectSeq(truth, IsReduce)) = 1
                /\ invocations[Len(items) + 2].kind = "continue")
    /\ [][invocations' # invocations =>
            /\ inflight = 0
            /\ Unresolved = 0
            /\ gpc = "idle"
            /\ Len(invocations') = Len(invocations) + 1]_vars

C14_Witness ==
    /\ Len(items) = 3
    /\ Len(invocations) = 5
    /\ prompt.kind = "continue"
    /\ gpc = "wait"
    /\ i = 2
    /\ inflight = 1
    /\ nCalls > 5

\* The preference order and the capable models, read off a listing.
Preferred == <<"models/gemini-2.5-flash", "models/gemini-2.0-flash",
               "models/gemini-1.5-flash", "models/gemini-pro">>
CapableAt(l) == {k \in DOMAIN l : "generateContent" \in l[k].methods}
CapableNames(l) == {l[k].name : k \in CapableAt(l)}
PreferredAt(l) == {k \in DOMAIN Preferred : Preferred[k] \in CapableNames(l)}
Least(S) == CHOOSE k \in S : \A m \in S : k <= m
ExpectedModel(l) ==
    IF PreferredAt(l) # {} THEN Preferred[Least(PreferredAt(l))]
    ELSE l[Least(CapableAt(l))].name

\* C15: choose_model returns the first model of the preference order that
\* the service lists as capable, else the first capable model listed; with
\* no capable model the run aborts before it collects an item or calls the
\* service; the model is resolved once and every invocation uses it.
C15_ModelSelection ==
    /\ [](/\ pc \notin {"start", "aborted"} => listed # None
          /\ listed # None =>
                IF CapableAt(listed[1]) = {}
                THEN /\ pc = "aborted"
                     /\ fatal = <<"select">>
                     /\ model_name = None
                     /\ items = <<>>
                     /\ invocations = <<>>
                     /\ nCalls = 0
                ELSE model_name = Some(ExpectedModel(listed[1]))
          /\ \A k \in DOMAIN invocations :
                invocations[k].model = Some(ExpectedModel(listed[1])))
    /\ [][model_name # None => model_name' = model_name]_vars

C15_Witness ==
    /\ pc = "done"
    /\ listed[1][1].name = "models/gemini-pro"
    /\ Len(listed[1]) = 3
    /\ model_name = Some("models/gemini-2.0-flash")
    /\ ContinueCount = 1
    /\ \A k \in DOMAIN invocations :
          invocations[k].model = Some("models/gemini-2.0-flash")

\* The continuation the service sent, without the white space around it.
TrimmedContinuation == MkReport(ContinuationTruth.hs, ContinuationTruth.len)
Appended == draft[1] \o NL \o TrimmedContinuation
Min(a, b) == IF a <= b THEN a ELSE b

\* ctx is the last TextLen(ctx) characters of text
IsTailOf(ctx, text) ==
    \E j \in 0..Len(text) :
        LET rest == SubSeq(text, j + 1, Len(text))
        IN  \/ ctx = rest
            \/ /\ j >= 1
               /\ Len(ctx) = Len(rest) + 1
               /\ SubSeq(ctx, 2, Len(ctx)) = rest
               /\ ctx[1].n < text[j].n

\* C16: report_text is the draft until the continuation returns and the
\* draft, a line break and the trimmed continuation after; so the report
\* written is one of the two and starts with the draft; the continuation
\* request is given the last 1500 characters of the draft, or all of it when
\* it is shorter.
C16_AppendOnly ==
    draft # None =>
      /\ IF pc \in {"persist", "done"} /\ ContinueCount = 1
         THEN ContinuationReturned /\ report_text = Some(Appended)
         ELSE report_text = draft
      /\ report_file # NoFile =>
            /\ report_file = report_text
            /\ SubSeq(report_file[1], 1, Len(draft[1])) = draft[1]
            /\ TextLen(report_file[1]) =
                 IF ContinueCount = 1
                 THEN DraftTruth.len + 1 + ContinuationTruth.len
                 ELSE DraftTruth.len
      /\ prompt.kind = "continue" =>
            /\ TextLen(prompt.body) = Min(1500, DraftTruth.len)
            /\ IsTailOf(prompt.body, draft[1])
            /\ DraftTruth.len <= 1500 => prompt.body = draft[1]

C16_Witness ==
    /\ pc = "done"
    /\ DraftTruth.len = 1600
    /\ ContinueCount = 1
    /\ TextLen(prompt.body) = 1500
    /\ prompt.body # draft[1]
    /\ report_file = Some(Appended)
    /\ TextLen(report_file[1]) = 1601 + ContinuationTruth.len

\* C18: the summaries file is written after map_summaries has returned and
\* before the report composer is called, the report file after it: a run
\* that has written the report has written the summaries of all N items,
\* and a run whose report composer or continuation failed has written the
\* summaries and not the report.
C18_ArtifactOrder ==
    /\ writes \in {<<>>, <<"summaries">>, <<"summaries", "report">>}
    /\ summary_file # NoFile <=> Len(writes) >= 1
    /\ report_file # NoFile <=> Len(writes) = 2
    /\ summary_file # NoFile =>
          /\ Len(summary_file[1]) = Len(items)
          /\ summary_file[1] = summaries
          /\ Len(MapInvocations) = Len(items)
    /\ ReduceCount >= 1 => summary_file # NoFile
    /\ pc \in {"save", "map", "map_wait"} => summary_file = NoFile
    /\ (fatal # <<>> /\ fatal[1] \in {"reduce", "continue"}) =>
          /\ summary_file # NoFile
          /\ report_file = NoFile

C18_Witness ==
    /\ pc = "aborted"
    /\ fatal = <<"reduce">>
    /\ Len(items) = 3
    /\ Len(summary_file[1]) = 3
    /\ writes = <<"summaries">>
    /\ report_file = NoFile

\* The run with its scheduling: the script is one thread that always takes
\* its next step, and the service answers every request it is sent.
FairSpec == Spec /\ WF_vars(Next)

\* C17: a run of N items issues at most N + 2 invocations, each of at most
\* 3 attempts and 2 waits, so it sends at most 3 (N + 2) requests, waits at
\* most 2 (N + 2) times, and ends, done or aborted.
C17_BoundedWork ==
    /\ [](/\ Len(invocations) <= Len(items) + 2
          /\ Len(MapInvocations) <= Len(items)
          /\ ReduceCount <= 1
          /\ ContinueCount <= 1
          /\ i <= DefaultRetries
          /\ nCalls <= DefaultRetries * Len(invocations)
          /\ nSleeps <= (DefaultRetries - 1) * Len(invocations)
          /\ nCalls <= 3 * (Len(items) + 2)
          /\ nSleeps <= 2 * (Len(items) + 2))
    /\ <>(pc \in {"done", "aborted"})
    /\ [][(pc \in {"done", "aborted"}) => pc' = pc]_vars

C17_Witness ==
    /\ pc = "done"
    /\ Len(items) = 3
    /\ Len(invocations) = 5
    /\ nCalls = 15
    /\ nSleeps = 10

(***************************************************************************)
(* generate_with_retry alone: one invocation, for every retries >= 1.      *)
(***************************************************************************)
InitGen ==
    /\ pc = "direct"
    /\ MainIdle
    /\ HistIdle
    /\ AuxIdle
    /\ MirrorIdle
    /\ PureIdle
    /\ gpc = "call"
    /\ retries \in 1..MaxAttempts
    /\ i = 0
    /\ last_err = None
    /\ resp = None
    /\ prompt = Prompt("direct", <<>>)
    /\ glog = <<>>

NextGen == GenSend \/ GenReturn \/ GenFail \/ GenSleep

SpecGen == InitGen /\ [][NextGen]_vars

\* What an observer of one invocation reads off glog.
IsOutcome(ev) == ev.e \in {"ok", "err"}
IsCall(ev) == ev.e = "call"
IsSleep(ev) == ev.e = "sleep"
Outcomes(log) == SelectSeq(log, IsOutcome)
Calls(log) == Len(SelectSeq(log, IsCall))
Sleeps(log) == LET s == SelectSeq(log, IsSleep) IN [j \in 1..Len(s) |-> s[j].t]

\* The error descriptions of ErrMsgs that hold "429" or "quota" in any case.
RateLimitMsgs == {Err429, ErrQuotaUpper, ErrQuotaMixed}
RateLimited(ev) == ev.e = "err" /\ ev.msg \in RateLimitMsgs

\* call, rate-limit error, sleep 30, call, rate-limit error, sleep 60, ...
RECURSIVE BackoffLog(_, _)
BackoffLog(o, k) ==
    IF k = 0 THEN <<>>
    ELSE BackoffLog(o, k - 1) \o <<EvCall, o[k], EvSleep(30 * k)>>

\* C1: if the first k calls fail with rate-limit errors and call k+1 succeeds
\* (k < retries), the invocation has returned that result after exactly k+1
\* calls and k sleeps of 30, 60, ..., 30*k seconds, each sleep between the
\* failed call and the next call.
C1_RetryBackoff ==
    pc = "direct" =>
      \A k \in 0..(retries - 1) :
        LET o == Outcomes(glog)
        IN  (/\ Len(o) >= k + 1
             /\ \A j \in 1..k : RateLimited(o[j])
             /\ o[k + 1].e = "ok")
            => /\ gpc = "returned"
               /\ resp = Some(o[k + 1].msg)
               /\ glog = BackoffLog(o, k) \o <<EvCall, o[k + 1]>>
               /\ Calls(glog) = k + 1
               /\ Sleeps(glog) = [j \in 1..k |-> 30 * j]

C1_Witness ==
    /\ pc = "direct"
    /\ retries = 3
    /\ gpc = "returned"
    /\ Calls(glog) = 3
    /\ Sleeps(glog) = <<30, 60>>
    /\ RateLimited(Outcomes(glog)[1])
    /\ RateLimited(Outcomes(glog)[2])
    /\ resp = Some(Outcomes(glog)[3].msg)

\* C2: an error that is not rate-limit-classified on attempt j ends the
\* invocation: it has raised that error after exactly j calls, with no call
\* and no sleep after it; on the first call that is 1 call and no sleep,
\* whatever retries is.
C2_NonRetryable ==
    pc = "direct" =>
      LET o == Outcomes(glog)
      IN  \A j \in 1..Len(o) :
            (o[j].e = "err" /\ o[j].msg \notin RateLimitMsgs)
            => /\ gpc = "raised"
               /\ last_err = Some(o[j].msg)
               /\ resp = None
               /\ j = Len(o)
               /\ Calls(glog) = j
               /\ glog[Len(glog)] = o[j]
               /\ Len(Sleeps(glog)) = j - 1
               /\ (j = 1 => glog = <<EvCall, o[1]>>)

C2_Witness ==
    /\ pc = "direct"
    /\ retries = 3
    /\ gpc = "raised"
    /\ glog = <<EvCall, EvErr(Err500)>>

\* C3: at most retries calls per invocation; if every attempt fails with a
\* rate-limit error, there are exactly retries calls, a sleep after each of
\* attempts 1..retries-1 and none after the last, and the invocation raises
\* the error of the last attempt instead of returning.
C3_Exhaustion ==
    pc = "direct" =>
      LET o == Outcomes(glog)
      IN  /\ Calls(glog) <= retries
          /\ (Len(o) >= retries /\ \A j \in 1..retries : RateLimited(o[j]))
             => /\ gpc = "raised"
                /\ Calls(glog) = retries
                /\ last_err = Some(o[retries].msg)
                /\ resp = None
                /\ glog = BackoffLog(o, retries - 1) \o <<EvCall, o[retries]>>
                /\ Sleeps(glog) = [j \in 1..(retries - 1) |-> 30 * j]

C3_Witness ==
    /\ pc = "direct"
    /\ retries = 3
    /\ gpc = "raised"
    /\ Calls(glog) = 3
    /\ Sleeps(glog) = <<30, 60>>
    /\ \A j \in 1..3 : RateLimited(Outcomes(glog)[j])

(***************************************************************************)
(* looks_truncated alone, on reports of known length and headers.          *)
(***************************************************************************)
TruncInputs ==
    { [hs |-> hs, len |-> len, text |-> MkReport(hs, len)] :
        hs \in SUBSET AllHeaders,
        len \in {100, TruncLen - 1, TruncLen, TruncLen + 1} }
    \cup { [hs |-> {}, len |-> 0, text |-> <<>>] }

InitTrunc ==
    /\ pc = "apply looks_truncated"
    /\ MainIdle
    /\ GenIdle
    /\ HistIdle
    /\ AuxIdle
    /\ MirrorIdle
    /\ arg \in TruncInputs
    /\ out = None

ApplyLooksTruncated ==
    /\ pc = "apply looks_truncated"
    /\ out' = Some(looks_truncated(arg.text))
    /\ pc' = "applied"
    /\ UNCHANGED <<mainVars, genVars, histVars, auxVars, arg, mirrorVars>>

SpecTrunc == InitTrunc /\ [][ApplyLooksTruncated]_vars

\* C6: looks_truncated(text) is true exactly when the text has fewer than
\* 1200 characters or the raw index header is not in it.
C6_TruncationBoundary ==
    pc = "applied" =>
      out = Some(arg.len < 1200 \/ H_RawIndex \notin arg.hs)

C6_Witness ==
    /\ pc = "applied"
    /\ arg.len = 1199
    /\ arg.hs = AllHeaders
    /\ out = Some(TRUE)

(***************************************************************************)
(* build_raw_index alone, on items whose title and link may be empty,      *)
(* white space only, or have white space around them.                      *)
(***************************************************************************)
TitleA == Str(<<"a">>)
TitleBPadded == Str(<<" ", "b", "\t">>)
Blank == Str(<<" ", "\n">>)
LinkU == Str(<<"u">>)
LinkVPadded == Str(<<"\n", "v", " ">>)

IndexPool ==
    { Item(ty, title, Str(<<"x">>), link) :
        ty \in {"news", "paper"},
        title \in {<<>>, Blank, TitleA, TitleBPadded},
        link \in {<<>>, Blank, LinkU, LinkVPadded} }

InitIndex ==
    /\ pc = "apply build_raw_index"
    /\ MainIdle
    /\ GenIdle
    /\ HistIdle
    /\ AuxIdle
    /\ MirrorIdle
    /\ arg \in SeqsUpTo(IndexPool, MaxIndexItems)
    /\ out = None

ApplyBuildRawIndex ==
    /\ pc = "apply build_raw_index"
    /\ out' = Some(build_raw_index(arg))
    /\ pc' = "applied"
    /\ UNCHANGED <<mainVars, genVars, histVars, auxVars, arg, mirrorVars>>

SpecIndex == InitIndex /\ [][ApplyBuildRawIndex]_vars

\* The pool's strings without the white space around them.
Trimmed(text) ==
    CASE text = TitleBPadded -> Str(<<"b">>)
      [] text = LinkVPadded -> Str(<<"v">>)
      [] text = Blank -> <<>>
      [] OTHER -> text

Indexed(it) == Trimmed(it.title) # <<>> /\ Trimmed(it.link) # <<>>
IndexedOf(its, ty) == {k \in DOMAIN its : its[k].type = ty /\ Indexed(its[k])}
LineOf(it) ==
    Str(<<"-", " ">>) \o Trimmed(it.title) \o Str(<<" ", "EM DASH", " ">>)
        \o Trimmed(it.link)

\* lines holds one line per item of `its` whose index is in S, in the
\* items' order
LinesMatch(lines, its, S) ==
    /\ Len(lines) = Cardinality(S)
    /\ \A k \in S : lines[Cardinality({m \in S : m <= k})] = LineOf(its[k])

\* C7: an item whose title or link is empty or white space only gets no
\* line in either list; every other item gets exactly one line
\* "- {title} -- {link}" (trimmed values) in the list of its kind and none in
\* the other; each list is in the items' order; so the two lists together
\* have as many lines as there are items with a title and a link.
C7_RawIndexExclusion ==
    pc = "applied" =>
      /\ LinesMatch(out[1].news_lines, arg, IndexedOf(arg, "news"))
      /\ LinesMatch(out[1].paper_lines, arg, IndexedOf(arg, "paper"))
      /\ Len(out[1].news_lines) + Len(out[1].paper_lines)
           = Cardinality({k \in DOMAIN arg : Indexed(arg[k])})
      /\ out[1].news_index_text = Join(NL, out[1].news_lines)
      /\ out[1].paper_index_text = Join(NL, out[1].paper_lines)

C7_Witness ==
    /\ pc = "applied"
    /\ Len(arg) = 2
    /\ arg[1].type = "news" /\ arg[1].title = Blank /\ arg[1].link = LinkU
    /\ arg[2].type = "news" /\ arg[2].title = TitleBPadded /\ arg[2].link = LinkVPadded
    /\ out[1].news_lines = <<Str(<<"-", " ", "b", " ", "EM DASH", " ", "v">>)>>
    /\ out[1].paper_lines = <<>>

(***************************************************************************)
(* upload_to_drive.py: the mirror, run up to MaxRuns times in sequence.    *)
(* The Drive service answers every call; files().list returns the files    *)
(* that match the query, and no file name holds a quote character.         *)
(***************************************************************************)
MaxRuns == 3          \* the mirror is run at most this many times

FName(stem, suffix) == [stem |-> stem, suffix |-> suffix]
LocalNames ==
    { FName("a", ".md"), FName("b", ".md"), FName("s", ".json"),
      FName("n", ".txt") }

DriveFile(id, name, parent, trashed, content) ==
    [id |-> id, name |-> name, parent |-> parent, trashed |-> trashed,
     content |-> content]

\* What the folder and its surroundings may hold before the first run: two
\* files named a.md, a trashed b.md, and an s.json of another folder.
RemotePool ==
    { DriveFile(1, FName("a", ".md"), "F", FALSE, "old"),
      DriveFile(2, FName("a", ".md"), "F", FALSE, "older"),
      DriveFile(3, FName("b", ".md"), "F", TRUE, "old"),
      DriveFile(4, FName("s", ".json"), "G", FALSE, "old") }

\* os.environ.get("GDRIVE_FOLDER_ID"), os.environ.get("GCP_SA_KEY_JSON"),
\* reports_dir.exists()
Envs ==
    [folder_id : {None, Some(""), Some("F")}, sa_key : BOOLEAN,
     reports_dir : BOOLEAN]

\* if not folder_id
Falsy(v) == v = None \/ v = Some("")

\* reports_dir.glob("*" + suffix), and the orders list() may give it in
glob(suffix) == {n \in DOMAIN local : n.suffix = suffix}
Orders(S) ==
    {o \in [1..Cardinality(S) -> S] :
        \A j, k \in 1..Cardinality(S) : o[j] = o[k] => j = k}
\* list(reports_dir.glob("*.md")) + list(reports_dir.glob("*.json"))
Globbed == {m \o j : m \in Orders(glob(".md")), j \in Orders(glob(".json"))}

\* service.files().list(q="'{folder_id}' in parents and name = '{file_name}'
\* and trashed = false")
FindExistingTrashed(folder_id, file_name) ==
    {f \in remote : f.parent = folder_id /\ f.name = file_name /\ f.trashed}
FindExisting(folder_id, file_name) ==
    {f \in remote :
        f.parent = folder_id /\ f.name = file_name /\ f.trashed = FALSE}

\* service.files().create(body={"name", "parents"}, media_body=the local file)
NewFile(folder_id, file_name) ==
    DriveFile(Cardinality(remote) + Cardinality(RemotePool) + 1, file_name,
              folder_id, FALSE, local[file_name])

Call(op, name) == [op |-> op, name |-> name]
Line(status, name) == [status |-> status, name |-> name]

\* raise RuntimeError: GDRIVE_FOLDER_ID is not set
NoFolderId ==
    /\ mpc = "start"
    /\ Falsy(env.folder_id)
    /\ mpc' = "failed"
    /\ UNCHANGED <<pc, mainVars, genVars, histVars, auxVars, pureVars, env,
                   local, remote, targets, tpos, api, printed, run, remote0,
                   remote1>>

\* raise RuntimeError: reports/ does not exist
NoReportsDir ==
    /\ mpc = "start"
    /\ ~Falsy(env.folder_id)
    /\ ~env.reports_dir
    /\ mpc' = "failed"
    /\ UNCHANGED <<pc, mainVars, genVars, histVars, auxVars, pureVars, env,
                   local, remote, targets, tpos, api, printed, run, remote0,
                   remote1>>

\* targets = ...; if not targets: raise RuntimeError
Glob ==
    /\ mpc = "start"
    /\ ~Falsy(env.folder_id)
    /\ env.reports_dir
    /\ \E ts \in Globbed :
          /\ targets' = ts
          /\ mpc' = IF ts = <<>> THEN "failed" ELSE "service"
    /\ UNCHANGED <<pc, mainVars, genVars, histVars, auxVars, pureVars, env,
                   local, remote, tpos, api, printed, run, remote0, remote1>>

\* get_drive_service(): raise RuntimeError when GCP_SA_KEY_JSON is not set
NoKey ==
    /\ mpc = "service"
    /\ ~env.sa_key
    /\ mpc' = "failed"
    /\ UNCHANGED <<pc, mainVars, genVars, histVars, auxVars, pureVars, env,
                   local, remote, targets, tpos, api, printed, run, remote0,
                   remote1>>

get_drive_service ==
    /\ mpc = "service"
    /\ env.sa_key
    /\ mpc' = "loop"
    /\ tpos' = 1
    /\ UNCHANGED <<pc, mainVars, genVars, histVars, auxVars, pureVars, env,
                   local, remote, targets, api, printed, run, remote0,
                   remote1>>

\* what upload_or_update_file would do with a file that exists
UpdateExisting ==
    /\ mpc = "loop"
    /\ tpos <= Len(targets)
    /\ LET file_name == targets[tpos]
           files == FindExisting(env.folder_id[1], file_name)
       IN  /\ files # {}
           /\ \E f \in files :
                 remote' = (remote \ {f}) \cup
                           {[f EXCEPT !.content = local[file_name]]}
           /\ api' = api \o <<Call("list", file_name),
                              Call("update", file_name)>>
           /\ printed' = Append(printed, Line("updated", file_name))
    /\ tpos' = tpos + 1
    /\ UNCHANGED <<pc, mainVars, genVars, histVars, auxVars, pureVars, mpc,
                   env, local, targets, run, remote0, remote1>>

\* upload_if_not_exists: if files: return "skipped", file_name
UploadSkipped ==
    /\ mpc = "loop"
    /\ tpos <= Len(targets)
    /\ LET file_name == targets[tpos]
       IN  /\ FindExisting(env.folder_id[1], file_name) # {}
           /\ api' = Append(api, Call("list", file_name))
           /\ printed' = Append(printed, Line("skipped", file_name))
    /\ tpos' = tpos + 1
    /\ UNCHANGED <<pc, mainVars, genVars, histVars, auxVars, pureVars, mpc,
                   env, local, remote, targets, run, remote0, remote1>>

\* upload_if_not_exists: create, return "created", file_name
UploadCreated ==
    /\ mpc = "loop"
    /\ tpos <= Len(targets)
    /\ LET file_name == targets[tpos]
       IN  /\ FindExisting(env.folder_id[1], file_name) = {}
           /\ remote' = remote \cup {NewFile(env.folder_id[1], file_name)}
           /\ api' = api \o <<Call("list", file_name),
                              Call("create", file_name)>>
           /\ printed' = Append(printed, Line("created", file_name))
    /\ tpos' = tpos + 1
    /\ UNCHANGED <<pc, mainVars, genVars, histVars, auxVars, pureVars, mpc,
                   env, local, targets, run, remote0, remote1>>

\* the loop is over: main returns
MirrorDone ==
    /\ mpc = "loop"
    /\ tpos > Len(targets)
    /\ mpc' = "finished"
    /\ remote1' = IF run = 1 THEN Some(remote) ELSE remote1
    /\ UNCHANGED <<pc, mainVars, genVars, histVars, auxVars, pureVars, env,
                   local, remote, targets, tpos, api, printed, run, remote0>>

\* the script is started again
RunAgain ==
    /\ mpc = "finished"
    /\ run < MaxRuns
    /\ run' = run + 1
    /\ mpc' = "start"
    /\ targets' = <<>>
    /\ tpos' = 0
    /\ api' = <<>>
    /\ printed' = <<>>
    /\ UNCHANGED <<pc, mainVars, genVars, histVars, auxVars, pureVars, env,
                   local, remote, remote0, remote1>>

\* between two runs the pipeline writes an artifact of the same name again
Regenerate ==
    /\ mpc = "finished"
    /\ \E n \in DOMAIN local :
          /\ local[n] = "v1"
          /\ local' = [local EXCEPT ![n] = "v2"]
    /\ UNCHANGED <<pc, mainVars, genVars, histVars, auxVars, pureVars, mpc,
                   env, remote, targets, tpos, api, printed, run, remote0,
                   remote1>>

InitMirror ==
    /\ pc = "upload_to_drive"
    /\ MainIdle
    /\ GenIdle
    /\ HistIdle
    /\ AuxIdle
    /\ PureIdle
    /\ mpc = "start"
    /\ env \in Envs
    /\ local \in IF env.reports_dir
                 THEN UNION {[ns -> {"v1"}] : ns \in SUBSET LocalNames}
                 ELSE {<<>>}
    /\ remote \in SUBSET RemotePool
    /\ remote0 = remote
    /\ remote1 = None
    /\ targets = <<>>
    /\ tpos = 0
    /\ api = <<>>
    /\ printed = <<>>
    /\ run = 1

NextMirror ==
    \/ NoFolderId
    \/ NoReportsDir
    \/ Glob
    \/ NoKey
    \/ get_drive_service
    \/ UploadSkipped
    \/ UploadCreated
    \/ MirrorDone
    \/ RunAgain
    \/ Regenerate

SpecMirror == InitMirror /\ [][NextMirror]_vars

\* The files of the folder that are not in the bin and bear the name.
LiveInFolder(files, name) ==
    {f \in files : f.parent = "F" /\ f.name = name /\ ~f.trashed}
IsCreate(c) == c.op = "create"
CreateCount(log) == Len(SelectSeq(log, IsCreate))

\* C13: the mirror only lists and creates: a target whose name a live file
\* of the folder bears is skipped and nothing changes; for any other target
\* one file is created, with the local content; no step changes or removes
\* a file, so every file there before the first run is there unchanged.
C13_Additive ==
    /\ [](/\ \A k \in DOMAIN api : api[k].op \in {"list", "create"}
          /\ remote0 \subseteq remote
          /\ \A f, g \in remote : f.id = g.id => f = g
          /\ mpc \in {"loop", "finished"} => Len(printed) = tpos - 1)
    /\ [][IF mpc = "loop" /\ tpos' = tpos + 1
          THEN LET name == targets[tpos]
               IN  IF LiveInFolder(remote, name) # {}
                   THEN /\ remote' = remote
                        /\ CreateCount(api') = CreateCount(api)
                        /\ printed' = Append(printed, Line("skipped", name))
                   ELSE /\ CreateCount(api') = CreateCount(api) + 1
                        /\ Cardinality(remote') = Cardinality(remote) + 1
                        /\ \E g \in remote' \ remote :
                              /\ remote' = remote \cup {g}
                              /\ g.name = name
                              /\ g.parent = "F"
                              /\ ~g.trashed
                              /\ g.content = local[name]
                        /\ printed' = Append(printed, Line("created", name))
          ELSE remote' = remote]_vars

C13_Witness ==
    /\ mpc = "finished"
    /\ run = 1
    /\ remote0 = RemotePool
    /\ printed = <<Line("skipped", FName("a", ".md")),
                   Line("created", FName("b", ".md")),
                   Line("created", FName("s", ".json"))>>
    /\ CreateCount(api) = 2
    /\ Cardinality(remote) = 6
    /\ FName("n", ".txt") \in DOMAIN local

AtMostOnePerName(files) ==
    \A f \in files : Cardinality(LiveInFolder(files, f.name)) <= 1

\* C19: when the folder starts with at most one live file per name, it
\* never holds two; once the first run is over the files stay as that run
\* left them: every later run prints skipped for every target and creates
\* nothing, also for an artifact written again in between, so what was
\* uploaded first stays.
C19_Idempotent ==
    /\ AtMostOnePerName(remote0) => AtMostOnePerName(remote)
    /\ remote1 # None => remote = remote1[1]
    /\ run >= 2 =>
          /\ remote1 # None
          /\ \A k \in DOMAIN printed : printed[k].status = "skipped"
          /\ \A k \in DOMAIN api : api[k].op = "list"
          /\ mpc = "finished" =>
                /\ Len(printed) = Len(targets)
                /\ Len(api) = Len(targets)
    /\ \A f \in remote \ remote0 : f.content = "v1"

C19_Witness ==
    /\ run = 3
    /\ mpc = "finished"
    /\ AtMostOnePerName(remote0)
    /\ Len(targets) = 3
    /\ \A k \in DOMAIN printed : printed[k].status = "skipped"
    /\ \E f \in remote \ remote0 : local[f.name] = "v2" /\ f.content = "v1"
    /\ remote = remote1[1]

====
